---------------------------- MODULE Spec2Model ----------------------------
(***************************************************************************)
(* A model of tk_framework_gdn/gdn_bridge.py: the timeout decorator that   *)
(* guards GDNBridge.ping and GDNBridge._wait_for_response, the six         *)
(* _forward_* handlers that republish inbound messages as Qt signals, the  *)
(* fire-and-forget senders and the host-document queries.                  *)
(***************************************************************************)
EXTENDS Integers, Sequences, FiniteSets, TLC

(***************************************************************************)
(* Bounds of the model.                                                    *)
(***************************************************************************)
\* Number of caller threads that invoke guarded calls concurrently.
NumCallers == 2

Callers == 1..NumCallers

(***************************************************************************)
(* Python values that cross the model, as records of strings.              *)
(***************************************************************************)
NoOutcome == [kind |-> "none", exc |-> "", msg |-> "", val |-> ""]

Returned(v) == [kind |-> "return", exc |-> "", msg |-> "", val |-> v]

Raised(e, m) == [kind |-> "raise", exc |-> e, msg |-> m, val |-> ""]

(***************************************************************************)
(* Timeout configuration: the two class attributes of GDNBridge.  Each is  *)
(* the environment's string when the variable is set and the float default *)
(* otherwise.  Durations are counted in tenths of a second.                *)
(***************************************************************************)
\* 300.0 seconds
DefaultResponseTimeout == 3000

\* 0.5 seconds
DefaultHeartbeatTimeout == 5

\* What the process environment may hold for either variable.
EnvValues == {"unset", "2", "abc"}

\* os.environ.get(name, default): the string set in the environment, else
\* the default, which is a float.
os_environ_get(env, default) ==
    IF env = "unset" THEN [t |-> "float", tenths |-> default, s |-> ""]
    ELSE [t |-> "str", tenths |-> 0, s |-> env]

\* float(x): a float is itself; a string is parsed, and a string that is no
\* number raises ValueError.
float_(x) ==
    IF x.t = "float" THEN [ok |-> TRUE, tenths |-> x.tenths]
    ELSE IF x.s = "2" THEN [ok |-> TRUE, tenths |-> 20]
    ELSE [ok |-> FALSE, tenths |-> 0]

(***************************************************************************)
(* The guarded calls.                                                      *)
(***************************************************************************)
GuardedFns == {"ping", "_wait_for_response"}

VARIABLES
    SHOTGUN_GDN_RESPONSE_TIMEOUT,   \* class attribute, read when the class is defined
    SHOTGUN_GDN_HEARTBEAT_TIMEOUT,  \* class attribute, read when the class is defined
    calls,                          \* per caller thread: its current or last guarded call
    io_handlers,                    \* self._io: the handler registered for each message name
    subs,                           \* for each signal, the connected slots in connection order
    rxLast,                         \* the last inbound message and what its handler did
    outbox,                         \* the messages given to self._io.emit, in order
    sendLast,                       \* the last call of a sender and how it ended
    app,                            \* self.app: the host application's document state
    queryLast,                      \* the last host query, the state it met and its result
    os_environ,                     \* os.environ: the two timeout variables
    lifecycle,                      \* module imported? bridge constructed? and the environment then
    rxLog,                          \* the inbound messages handled, in delivery order
    pubLog,                         \* the signals emitted, in order, each with its message's place
    dlvLog                          \* the slot calls made, in order, each with its message's place

callVars == <<SHOTGUN_GDN_RESPONSE_TIMEOUT, SHOTGUN_GDN_HEARTBEAT_TIMEOUT, calls>>

inVars == <<io_handlers, subs, rxLast>>

outVars == <<outbox, sendLast>>

hostVars == <<app, queryLast>>

cfgVars == <<os_environ, lifecycle>>

orderVars == <<rxLog, pubLog, dlvLog>>

vars == <<callVars, inVars, outVars, hostVars, cfgVars, orderVars>>

\* The names of the two timeout variables in the environment.
EnvNames == {"SHOTGUN_GDN_RESPONSE_TIMEOUT", "SHOTGUN_GDN_HEARTBEAT_TIMEOUT"}

\* A class attribute before the class body has run.
Undefined == [t |-> "undefined", tenths |-> 0, s |-> ""]

\* The bridge exists: the module was imported and __init__ has returned.
Constructed == lifecycle.phase = "constructed"

\* A faulty seconds: the environment is read again at every call.
MutSecondsReadsEnvironAtCall(fn) ==
    IF fn = "ping"
    THEN os_environ_get(os_environ["SHOTGUN_GDN_HEARTBEAT_TIMEOUT"], DefaultHeartbeatTimeout)
    ELSE os_environ_get(os_environ["SHOTGUN_GDN_RESPONSE_TIMEOUT"], DefaultResponseTimeout)

\* The decorator arguments of the two guarded methods.
seconds(fn) ==
    IF fn = "ping" THEN SHOTGUN_GDN_HEARTBEAT_TIMEOUT
    ELSE SHOTGUN_GDN_RESPONSE_TIMEOUT

error_message(fn) ==
    IF fn = "ping" THEN "Ping timed out."
    ELSE "Timed out waiting for response."

\* A caller thread that has made no guarded call yet.
NoCall ==
    [fn |-> "none", pc |-> "idle", timer |-> "none", interval |-> 0,
     firedAt |-> "never", timerThreadExc |-> NoOutcome, resp |-> "none",
     funcResult |-> NoOutcome, outcome |-> NoOutcome]

InFlight(call) == call.pc \in {"in_func", "finally"}

\* _handle_timeout runs on the timer's own thread: the RPCTimeoutError it
\* raises ends that thread and reaches no other one.
_handle_timeout(call, fn) ==
    [call EXCEPT !.timerThreadExc = Raised("RPCTimeoutError", error_message(fn))]

\* A faulty timer_cancel: one timer shared by all activations, so that
\* cancelling it stops the timer of every call.
MutCancelEveryTimer(cs, c) ==
    [d \in DOMAIN cs |->
        IF cs[d].timer = "active" THEN [cs[d] EXCEPT !.timer = "cancelled"]
        ELSE cs[d]]

\* threading.Timer.cancel(): stops a timer that is still waiting; a timer
\* that has fired, or was never started, is left as it is.
timer_cancel(cs, c) ==
    [cs EXCEPT ![c].timer = IF @ = "active" THEN "cancelled" ELSE @]

\* A faulty wrapper_exit: the timer is cancelled after func returned, not
\* in a finally clause, so a func that raises leaves it running.
MutCancelOnSuccessOnly(cs, c) ==
    LET res == cs[c].funcResult
        cs1 == IF res.kind = "return" THEN timer_cancel(cs, c) ELSE cs
    IN [cs1 EXCEPT ![c].pc = IF res.kind = "return" THEN "returned" ELSE "raised",
                   ![c].outcome = res]

\* The finally clause of wrapper and what follows it: the timer is
\* cancelled on every path, then the function's result is returned or its
\* exception goes on to the caller.
wrapper_exit(cs, c) ==
    LET res == cs[c].funcResult
        cs1 == timer_cancel(cs, c)
    IN [cs1 EXCEPT ![c].pc = IF res.kind = "return" THEN "returned" ELSE "raised",
                   ![c].outcome = res]

\* What the wrapped function returns once the remote side has answered:
\* GDNBridge.ping returns nothing, _wait_for_response returns the results
\* recorded for its uid (the uid of a call is its caller's number).
func_result(fn, uid) ==
    IF fn = "ping" THEN Returned("None")
    ELSE Returned("results of " \o ToString(uid))

\* The class body reads the environment; no guarded call has been made.
InitCallsWith(environ) ==
    /\ os_environ \in [EnvNames -> environ]
    /\ lifecycle = [phase |-> "constructed", atImport |-> os_environ,
                    atConstruct |-> os_environ]
    /\ SHOTGUN_GDN_RESPONSE_TIMEOUT =
         os_environ_get(os_environ["SHOTGUN_GDN_RESPONSE_TIMEOUT"], DefaultResponseTimeout)
    /\ SHOTGUN_GDN_HEARTBEAT_TIMEOUT =
         os_environ_get(os_environ["SHOTGUN_GDN_HEARTBEAT_TIMEOUT"], DefaultHeartbeatTimeout)
    /\ calls = [c \in Callers |-> NoCall]

InitCalls == InitCallsWith(EnvValues)

\* The same with neither variable set in the environment.
InitCallsDefault == InitCallsWith({"unset"})

\* wrapper, up to the point where func blocks: the timer is built from
\* float(seconds) and started, then func sends its request and waits.  A
\* seconds that float() rejects raises ValueError before the try.
Call(c, fn) ==
    /\ Constructed
    /\ ~InFlight(calls[c])
    /\ LET d == float_(seconds(fn))
       IN calls' = [calls EXCEPT ![c] =
            IF d.ok
            THEN [NoCall EXCEPT !.fn = fn, !.pc = "in_func", !.timer = "active",
                                !.interval = d.tenths, !.resp = "pending"]
            ELSE [NoCall EXCEPT !.fn = fn, !.pc = "raised",
                                !.outcome = Raised("ValueError", "")]]
    /\ UNCHANGED <<SHOTGUN_GDN_RESPONSE_TIMEOUT, SHOTGUN_GDN_HEARTBEAT_TIMEOUT>>
    /\ UNCHANGED <<inVars, outVars, hostVars, cfgVars, orderVars>>

\* The timer's interval passes while the timer is still waiting.
TimerFire(c) ==
    /\ calls[c].timer = "active"
    /\ calls' = [calls EXCEPT ![c] =
         _handle_timeout([calls[c] EXCEPT !.timer = "fired", !.firedAt = calls[c].pc],
                         calls[c].fn)]
    /\ UNCHANGED <<SHOTGUN_GDN_RESPONSE_TIMEOUT, SHOTGUN_GDN_HEARTBEAT_TIMEOUT>>
    /\ UNCHANGED <<inVars, outVars, hostVars, cfgVars, orderVars>>

\* The transport delivers the acknowledgment or response the call waits for.
Deliver(c) ==
    /\ calls[c].pc = "in_func"
    /\ calls[c].resp = "pending"
    /\ calls' = [calls EXCEPT ![c].resp = "arrived"]
    /\ UNCHANGED <<SHOTGUN_GDN_RESPONSE_TIMEOUT, SHOTGUN_GDN_HEARTBEAT_TIMEOUT>>
    /\ UNCHANGED <<inVars, outVars, hostVars, cfgVars, orderVars>>

\* func returns: the wait ends because the answer is there.
FuncReturn(c) ==
    /\ calls[c].pc = "in_func"
    /\ calls[c].resp = "arrived"
    /\ calls' = [calls EXCEPT ![c].pc = "finally",
                              ![c].funcResult = func_result(calls[c].fn, c)]
    /\ UNCHANGED <<SHOTGUN_GDN_RESPONSE_TIMEOUT, SHOTGUN_GDN_HEARTBEAT_TIMEOUT>>
    /\ UNCHANGED <<inVars, outVars, hostVars, cfgVars, orderVars>>

\* func raises a failure of its own (the connection is gone) while waiting.
FuncRaise(c) ==
    /\ calls[c].pc = "in_func"
    /\ calls[c].resp = "pending"
    /\ calls' = [calls EXCEPT ![c].pc = "finally",
                              ![c].funcResult = Raised("OperationFailure", "")]
    /\ UNCHANGED <<SHOTGUN_GDN_RESPONSE_TIMEOUT, SHOTGUN_GDN_HEARTBEAT_TIMEOUT>>
    /\ UNCHANGED <<inVars, outVars, hostVars, cfgVars, orderVars>>

\* The finally clause and the return of wrapper.
Finally(c) ==
    /\ calls[c].pc = "finally"
    /\ calls' = wrapper_exit(calls, c)
    /\ UNCHANGED <<SHOTGUN_GDN_RESPONSE_TIMEOUT, SHOTGUN_GDN_HEARTBEAT_TIMEOUT>>
    /\ UNCHANGED <<inVars, outVars, hostVars, cfgVars, orderVars>>

(***************************************************************************)
(* JSON texts and the Python values they decode to.  A value is a record:  *)
(* t its type, n its number (a float is kept in tenths), s its string,     *)
(* items the key/value pairs of a dict.                                    *)
(***************************************************************************)
PyNone == [t |-> "null", n |-> 0, s |-> "", items |-> {}]

PyInt(i) == [t |-> "int", n |-> i, s |-> "", items |-> {}]

PyFloat(tenths) == [t |-> "float", n |-> tenths, s |-> "", items |-> {}]

PyBool(b) == [t |-> "bool", n |-> IF b THEN 1 ELSE 0, s |-> "", items |-> {}]

PyStr(str) == [t |-> "str", n |-> 0, s |-> str, items |-> {}]

PyDict(kvs) == [t |-> "dict", n |-> 0, s |-> "", items |-> kvs]

\* A value no JSON encoder accepts (a set, an arbitrary object).
PyObject == [t |-> "object", n |-> 0, s |-> "", items |-> {}]

\* The texts the remote side may send as a payload.
Payloads ==
    {"42", "7", "\"7\"", "\"abc\"", "3.7", "true", "null", "{}", "{oops", "",
     "{\"level\":\"warning\",\"message\":\"disk full\"}",
     "{\"level\":\"debug\",\"message\":\"ok\"}",
     "{\"active_document_path\":\"/p/a.psd\"}"}

\* sgtk.util.json.loads(text): the decoded value, or ValueError for a text
\* that is no JSON document.
json_loads(text) ==
    CASE text = "42" -> [ok |-> TRUE, v |-> PyInt(42)]
      [] text = "7" -> [ok |-> TRUE, v |-> PyInt(7)]
      [] text = "\"7\"" -> [ok |-> TRUE, v |-> PyStr("7")]
      [] text = "\"abc\"" -> [ok |-> TRUE, v |-> PyStr("abc")]
      [] text = "3.7" -> [ok |-> TRUE, v |-> PyFloat(37)]
      [] text = "true" -> [ok |-> TRUE, v |-> PyBool(TRUE)]
      [] text = "null" -> [ok |-> TRUE, v |-> PyNone]
      [] text = "{}" -> [ok |-> TRUE, v |-> PyDict({})]
      [] text = "{\"level\":\"warning\",\"message\":\"disk full\"}" ->
            [ok |-> TRUE,
             v |-> PyDict({[k |-> "level", v |-> PyStr("warning")],
                           [k |-> "message", v |-> PyStr("disk full")]})]
      [] text = "{\"level\":\"debug\",\"message\":\"ok\"}" ->
            [ok |-> TRUE,
             v |-> PyDict({[k |-> "level", v |-> PyStr("debug")],
                           [k |-> "message", v |-> PyStr("ok")]})]
      [] text = "{\"active_document_path\":\"/p/a.psd\"}" ->
            [ok |-> TRUE,
             v |-> PyDict({[k |-> "active_document_path", v |-> PyStr("/p/a.psd")]})]
      [] OTHER -> [ok |-> FALSE, v |-> PyNone]

\* int(x): an int or a bool is its number, a float is truncated, a string
\* of digits is parsed; another string raises ValueError, anything else
\* TypeError.
int_(x) ==
    CASE x.t \in {"int", "bool"} -> [exc |-> "", n |-> x.n]
      [] x.t = "float" -> [exc |-> "", n |-> x.n \div 10]
      [] x.t = "str" /\ x.s = "7" -> [exc |-> "", n |-> 7]
      [] x.t = "str" -> [exc |-> "ValueError", n |-> 0]
      [] OTHER -> [exc |-> "TypeError", n |-> 0]

\* response.get(key): the value under key, None when the key is missing;
\* a value that is no dict has no get and raises AttributeError.
dict_get(x, key) ==
    IF x.t # "dict" THEN [exc |-> "AttributeError", v |-> PyNone]
    ELSE IF \E i \in x.items : i.k = key
    THEN [exc |-> "", v |-> (CHOOSE i \in x.items : i.k = key).v]
    ELSE [exc |-> "", v |-> PyNone]

(***************************************************************************)
(* The inbound path: the transport calls the handler registered for a      *)
(* message name; the handler emits a signal of MessageEmitter.             *)
(***************************************************************************)
\* The signals of MessageEmitter.
Signals ==
    {"logging_received", "command_received", "run_tests_request_received",
     "state_requested", "active_document_changed", "gdn_hwnd"}

\* The properties of GDNBridge that hand out the emitter's signals.
active_document_changed == "active_document_changed"

logging_received == "logging_received"

command_received == "command_received"

hwnd_changed == "gdn_hwnd"

run_tests_request_received == "run_tests_request_received"

state_requested == "state_requested"

\* The message names the transport may deliver.
MessageNames ==
    {"logging", "command", "run_tests", "state_requested",
     "active_document_changed", "gdn_hwnd"}

\* Most slots connected to the emitter's signals, all signals together.
MaxSubs == 2

\* What a handler does: the exception that leaves it ("" when none) and the
\* signals it emitted, in order.
Emits(signal, args) == [exc |-> "", emitted |-> <<[signal |-> signal, args |-> args]>>]

Fails(exc) == [exc |-> exc, emitted |-> <<>>]

_forward_active_document_changed(response) ==
    LET r == json_loads(response)
        path == dict_get(r.v, "active_document_path")
    IN IF ~r.ok THEN Fails("ValueError")
       ELSE IF path.exc # "" THEN Fails(path.exc)
       ELSE Emits(active_document_changed, <<path.v>>)

_forward_gdn_hwnd(response) ==
    LET r == json_loads(response)
        i == int_(r.v)
    IN IF ~r.ok THEN Fails("ValueError")
       ELSE IF i.exc # "" THEN Fails(i.exc)
       ELSE Emits(hwnd_changed, <<PyInt(i.n)>>)

\* A faulty _forward_command: a payload that cannot be converted is
\* published as command 0.
MutForwardCommandDefaultsToZero(response) ==
    LET r == json_loads(response)
        i == int_(r.v)
    IN IF ~r.ok \/ i.exc # "" THEN Emits(command_received, <<PyInt(0)>>)
       ELSE Emits(command_received, <<PyInt(i.n)>>)

_forward_command(response) ==
    LET r == json_loads(response)
        i == int_(r.v)
    IN IF ~r.ok THEN Fails("ValueError")
       ELSE IF i.exc # "" THEN Fails(i.exc)
       ELSE Emits(command_received, <<PyInt(i.n)>>)

\* A faulty _forward_logging: it reads the key "msg", which log_message
\* writes, where the inbound payload has "message".
MutForwardLoggingReadsMsgKey(response) ==
    LET r == json_loads(response)
        level == dict_get(r.v, "level")
        message == dict_get(r.v, "msg")
    IN IF ~r.ok THEN Fails("ValueError")
       ELSE IF level.exc # "" THEN Fails(level.exc)
       ELSE Emits(logging_received, <<level.v, message.v>>)

_forward_logging(response) ==
    LET r == json_loads(response)
        level == dict_get(r.v, "level")
        message == dict_get(r.v, "message")
    IN IF ~r.ok THEN Fails("ValueError")
       ELSE IF level.exc # "" THEN Fails(level.exc)
       ELSE Emits(logging_received, <<level.v, message.v>>)

\* A faulty _forward_run_tests: it decodes its payload as the other
\* handlers do.
MutForwardRunTestsDecodesPayload(response) ==
    LET r == json_loads(response)
    IN IF ~r.ok THEN Fails("ValueError")
       ELSE Emits(run_tests_request_received, <<>>)

_forward_run_tests(response) == Emits(run_tests_request_received, <<>>)

_forward_state_request(response) == Emits(state_requested, <<>>)

\* Calling the bound method a name was registered with.
invoke(handler, response) ==
    CASE handler = "_forward_logging" -> _forward_logging(response)
      [] handler = "_forward_command" -> _forward_command(response)
      [] handler = "_forward_run_tests" -> _forward_run_tests(response)
      [] handler = "_forward_state_request" -> _forward_state_request(response)
      [] handler = "_forward_active_document_changed" ->
            _forward_active_document_changed(response)
      [] handler = "_forward_gdn_hwnd" -> _forward_gdn_hwnd(response)

\* A faulty __init__: the handlers of command and gdn_hwnd are registered
\* under each other's name.
MutInitSwapsCommandAndHwnd ==
    [name \in MessageNames |->
        CASE name = "logging" -> "_forward_logging"
          [] name = "command" -> "_forward_gdn_hwnd"
          [] name = "run_tests" -> "_forward_run_tests"
          [] name = "state_requested" -> "_forward_state_request"
          [] name = "active_document_changed" -> "_forward_active_document_changed"
          [] name = "gdn_hwnd" -> "_forward_command"]

\* The self._io.on(name, handler) calls of GDNBridge.__init__.
GDNBridge_init ==
    [name \in MessageNames |->
        CASE name = "logging" -> "_forward_logging"
          [] name = "command" -> "_forward_command"
          [] name = "run_tests" -> "_forward_run_tests"
          [] name = "state_requested" -> "_forward_state_request"
          [] name = "active_document_changed" -> "_forward_active_document_changed"
          [] name = "gdn_hwnd" -> "_forward_gdn_hwnd"]

\* Signal.emit(*args) with directly connected slots: every slot connected
\* to the signal is called with the arguments, in connection order, before
\* emit returns.
\* A faulty signal_emit: every connected slot is called twice.
MutSignalEmitCallsSlotsTwice(slots, e) ==
    [i \in 1..(2 * Len(slots)) |->
        [sub |-> slots[(i + 1) \div 2], signal |-> e.signal, args |-> e.args]]

signal_emit(slots, e) ==
    [i \in 1..Len(slots) |-> [sub |-> slots[i], signal |-> e.signal, args |-> e.args]]

RECURSIVE deliver_all(_, _)
deliver_all(connected, emitted) ==
    IF emitted = <<>> THEN <<>>
    ELSE signal_emit(connected[Head(emitted).signal], Head(emitted))
            \o deliver_all(connected, Tail(emitted))

NoMessage == [name |-> "", payload |-> "", exc |-> "", emitted |-> <<>>, delivered |-> <<>>]

NumConnected == Len(subs["logging_received"]) + Len(subs["command_received"])
    + Len(subs["run_tests_request_received"]) + Len(subs["state_requested"])
    + Len(subs["active_document_changed"]) + Len(subs["gdn_hwnd"])

InitInbound ==
    /\ io_handlers = GDNBridge_init
    /\ subs = [sig \in Signals |-> <<>>]
    /\ rxLast = NoMessage
    /\ rxLog = <<>>
    /\ pubLog = <<>>
    /\ dlvLog = <<>>

\* A consumer connects a new slot to one of the bridge's signals.
Connect(sig) ==
    /\ NumConnected < MaxSubs
    /\ subs' = [subs EXCEPT ![sig] = Append(@, NumConnected + 1)]
    /\ UNCHANGED <<io_handlers, rxLast>>
    /\ UNCHANGED <<callVars, outVars, hostVars, cfgVars, orderVars>>

\* A faulty Receive: after a handler has raised, its channel is registered
\* anew, with the handler of state_requested, which cannot raise.
MutReceiveReplacesFailedHandler(name, payload) ==
    /\ name \in DOMAIN io_handlers
    /\ LET done == invoke(io_handlers[name], payload)
       IN /\ rxLast' = [name |-> name, payload |-> payload, exc |-> done.exc,
                        emitted |-> done.emitted,
                        delivered |-> deliver_all(subs, done.emitted)]
          /\ io_handlers' = IF done.exc = "" THEN io_handlers
                            ELSE [io_handlers EXCEPT ![name] = "_forward_state_request"]
    /\ UNCHANGED subs
    /\ UNCHANGED <<callVars, outVars, hostVars, cfgVars, orderVars>>

\* The transport receives a message and calls the handler registered for
\* its name; the handler runs to its end, slots included, before the
\* transport takes the next message.  An exception that leaves the handler
\* arrives in the transport's receive path.
Receive(name, payload) ==
    /\ name \in DOMAIN io_handlers
    /\ LET done == invoke(io_handlers[name], payload)
       IN rxLast' = [name |-> name, payload |-> payload, exc |-> done.exc,
                     emitted |-> done.emitted,
                     delivered |-> deliver_all(subs, done.emitted)]
    /\ UNCHANGED <<io_handlers, subs>>
    /\ UNCHANGED <<callVars, outVars, hostVars, cfgVars, orderVars>>

\* The longest run of inbound messages that is kept in the logs.
MaxInbound == 3

\* Each entry of a sequence of events, marked with the place of its message.
stamped(events, place) ==
    [i \in 1..Len(events) |->
        [sub |-> IF "sub" \in DOMAIN events[i] THEN events[i].sub ELSE 0,
         signal |-> events[i].signal, args |-> events[i].args, place |-> place]]

\* The same step of the transport as Receive, with the message, the signals
\* its handler emitted and the slot calls these made appended to the logs.
ReceiveNext(name, payload) ==
    /\ name \in DOMAIN io_handlers
    /\ Len(rxLog) < MaxInbound
    /\ LET done == invoke(io_handlers[name], payload)
           place == Len(rxLog) + 1
       IN /\ rxLast' = [name |-> name, payload |-> payload, exc |-> done.exc,
                        emitted |-> done.emitted,
                        delivered |-> deliver_all(subs, done.emitted)]
          /\ rxLog' = Append(rxLog, [name |-> name, payload |-> payload])
          /\ pubLog' = pubLog \o stamped(done.emitted, place)
          /\ dlvLog' = dlvLog \o stamped(deliver_all(subs, done.emitted), place)
    /\ UNCHANGED <<io_handlers, subs>>
    /\ UNCHANGED <<callVars, outVars, hostVars, cfgVars>>

NextInbound ==
    \/ \E sig \in Signals : Connect(sig)
    \/ \E name \in MessageNames, payload \in Payloads : Receive(name, payload)

(***************************************************************************)
(* The senders: each encodes its argument and gives one named message to   *)
(* the transport.                                                          *)
(***************************************************************************)
\* Most messages kept in the record of what was given to the transport.
MaxOutbox == 2

\* json.dumps of a value that holds no other value.
json_dumps_scalar(x) ==
    CASE x.t = "str" -> [exc |-> "", text |-> "\"" \o x.s \o "\""]
      [] x.t = "int" -> [exc |-> "", text |-> ToString(x.n)]
      [] x.t = "bool" -> [exc |-> "", text |-> IF x.n = 1 THEN "true" ELSE "false"]
      [] x.t = "null" -> [exc |-> "", text |-> "null"]
      [] OTHER -> [exc |-> "TypeError", text |-> ""]

\* json.dumps(x): the JSON text of x; TypeError for a value that is not
\* serializable, or that holds one.  (Dicts here hold at most one item.)
json_dumps(x) ==
    IF x.t # "dict" THEN json_dumps_scalar(x)
    ELSE IF x.items = {} THEN [exc |-> "", text |-> "{}"]
    ELSE LET i == CHOOSE i \in x.items : TRUE
             inner == json_dumps_scalar(i.v)
         IN IF inner.exc # "" THEN [exc |-> inner.exc, text |-> ""]
            ELSE [exc |-> "", text |-> "{\"" \o i.k \o "\": " \o inner.text \o "}"]

\* json.dumps({"level": level, "msg": msg})
json_dumps_log_data(level, msg) ==
    LET l == json_dumps_scalar(level)
        m == json_dumps_scalar(msg)
    IN IF l.exc # "" THEN [exc |-> l.exc, text |-> ""]
       ELSE IF m.exc # "" THEN [exc |-> m.exc, text |-> ""]
       ELSE [exc |-> "",
             text |-> "{\"level\": " \o l.text \o ", \"msg\": " \o m.text \o "}"]

\* What a sender does: the exception that leaves it ("" when none) and the
\* self._io.emit calls it made, each a name and its arguments.
Sent(name, args) == [exc |-> "", emits |-> <<[name |-> name, args |-> args]>>]

NotSent(exc) == [exc |-> exc, emits |-> <<>>]

\* A faulty dumps_then_emit: the message is emitted first, without its
\* argument when the encoding then fails.
MutEmitBeforeEncode(name, arg) ==
    LET j == json_dumps(arg)
    IN IF j.exc # "" THEN [exc |-> j.exc, emits |-> <<[name |-> name, args |-> <<>>]>>]
       ELSE Sent(name, <<j.text>>)

\* The body shared by the senders that encode one argument and emit it.
dumps_then_emit(name, arg) ==
    LET j == json_dumps(arg)
    IN IF j.exc # "" THEN NotSent(j.exc) ELSE Sent(name, <<j.text>>)

log_message(level, msg) ==
    LET j == json_dumps_log_data(level, msg)
    IN IF j.exc # "" THEN NotSent(j.exc) ELSE Sent("log_message", <<j.text>>)

\* A faulty send_commands: the message carries the method's name.
MutSendCommandsUnderItsOwnName(commands) == dumps_then_emit("send_commands", commands)

send_commands(commands) == dumps_then_emit("set_commands", commands)

send_context_display(context_display) ==
    dumps_then_emit("set_context_display", context_display)

send_context_thumbnail(context_thumbnail) ==
    dumps_then_emit("set_context_thumbnail", context_thumbnail)

send_log_file_path(log_file) == dumps_then_emit("set_log_file_path", log_file)

send_unknown_context == Sent("set_unknown_context", <<>>)

context_about_to_change == Sent("context_about_to_change", <<>>)

\* The senders that take one argument, and the arguments tried: a string,
\* dicts, and values json.dumps rejects.
OneArgSenders ==
    {"send_commands", "send_context_display", "send_context_thumbnail",
     "send_log_file_path"}

NoArgSenders == {"send_unknown_context", "context_about_to_change"}

SenderArgs ==
    {PyStr("/tmp/tk.log"), PyDict({}), PyDict({[k |-> "name", v |-> PyStr("Publish")]}),
     PyObject, PyDict({[k |-> "icon", v |-> PyObject]})}

LogLevels == {PyStr("info"), PyObject}

LogMessages == {PyStr("hello"), PyObject}

sender(op, a, b) ==
    CASE op = "log_message" -> log_message(a, b)
      [] op = "send_commands" -> send_commands(a)
      [] op = "send_context_display" -> send_context_display(a)
      [] op = "send_context_thumbnail" -> send_context_thumbnail(a)
      [] op = "send_log_file_path" -> send_log_file_path(a)
      [] op = "send_unknown_context" -> send_unknown_context
      [] op = "context_about_to_change" -> context_about_to_change

NoSend == [op |-> "", a |-> PyNone, b |-> PyNone, exc |-> ""]

InitOutbound ==
    /\ outbox = <<>>
    /\ sendLast = NoSend

\* A caller runs one sender from its first line to its return or raise.
Send(op, a, b) ==
    /\ Constructed
    /\ Len(outbox) < MaxOutbox
    /\ LET done == sender(op, a, b)
       IN /\ outbox' = outbox \o done.emits
          /\ sendLast' = [op |-> op, a |-> a, b |-> b, exc |-> done.exc]
    /\ UNCHANGED <<callVars, inVars, hostVars, cfgVars, orderVars>>

NextOutbound ==
    \/ \E level \in LogLevels, msg \in LogMessages : Send("log_message", level, msg)
    \/ \E op \in OneArgSenders, arg \in SenderArgs : Send(op, arg, PyNone)
    \/ \E op \in NoArgSenders : Send(op, PyNone, PyNone)

(***************************************************************************)
(* The host queries: self.app is the host application, reached through an  *)
(* accessor that may raise.                                                *)
(***************************************************************************)
PyBytes(str) == [t |-> "bytes", n |-> 0, s |-> str, items |-> {}]

\* What app.activeDocument does (raise, give None, give a document) and,
\* for a document, what doc.fullName.fsName does (raise or give a value).
HostStates ==
    {[activeDocument |-> "raises", fsName |-> "none", path |-> PyNone],
     [activeDocument |-> "None", fsName |-> "none", path |-> PyNone]}
    \cup {[activeDocument |-> "doc", fsName |-> "raises", path |-> PyNone]}
    \cup {[activeDocument |-> "doc", fsName |-> "value", path |-> v] :
            v \in {PyStr("/p/a.psd"), PyStr("/p/b.psd"), PyBytes("/p/a.psd"),
                   PyNone, PyInt(3)}}

\* six.ensure_str(s): a str is itself, bytes are decoded, anything else
\* raises TypeError.
ensure_str(x) ==
    CASE x.t = "str" -> Returned(x)
      [] x.t = "bytes" -> Returned(PyStr(x.s))
      [] OTHER -> Raised("TypeError", "")

\* The document object an accessor gave, as the caller holds it.
Document == [t |-> "doc", n |-> 0, s |-> "", items |-> {}]

\* A faulty get_active_document: no try/except around the accessor.
MutGetActiveDocumentLetsItRaise(host) ==
    IF host.activeDocument = "raises" THEN Raised("RuntimeError", "")
    ELSE IF host.activeDocument = "None" THEN Returned(PyNone)
    ELSE Returned(Document)

get_active_document(host) ==
    IF host.activeDocument = "raises" THEN Returned(PyNone)
    ELSE IF host.activeDocument = "None" THEN Returned(PyNone)
    ELSE Returned(Document)

get_active_document_path(host) ==
    LET doc == get_active_document(host)
        path == IF host.fsName = "raises" THEN PyNone ELSE host.path
    IN IF doc.kind = "raise" THEN doc
       ELSE IF doc.val # Document THEN Returned(PyNone)
       ELSE IF path # PyNone THEN ensure_str(path)
       ELSE Returned(PyNone)

NoQuery == [op |-> "", appAt |-> CHOOSE h \in HostStates : h.activeDocument = "None",
            result |-> NoOutcome]

InitHost ==
    /\ app \in HostStates
    /\ queryLast = NoQuery

\* The host application opens, closes or saves a document.
HostChange(h) ==
    /\ app # h
    /\ app' = h
    /\ UNCHANGED queryLast
    /\ UNCHANGED <<callVars, inVars, outVars, cfgVars, orderVars>>

GetActiveDocument ==
    /\ Constructed
    /\ queryLast' = [op |-> "get_active_document", appAt |-> app,
                     result |-> get_active_document(app)]
    /\ UNCHANGED app
    /\ UNCHANGED <<callVars, inVars, outVars, cfgVars, orderVars>>

GetActiveDocumentPath ==
    /\ Constructed
    /\ queryLast' = [op |-> "get_active_document_path", appAt |-> app,
                     result |-> get_active_document_path(app)]
    /\ UNCHANGED app
    /\ UNCHANGED <<callVars, inVars, outVars, cfgVars, orderVars>>

NextHost ==
    \/ \E h \in HostStates : HostChange(h)
    \/ GetActiveDocument
    \/ GetActiveDocumentPath

(***************************************************************************)
(* The specifications: the whole bridge, and each of its parts with the    *)
(* other parts left as constructed.                                        *)
(***************************************************************************)
(***************************************************************************)
(* The life of the bridge: the environment, the import of the module, which *)
(* runs the class body, and the construction of a bridge.                   *)
(***************************************************************************)

\* No environment seen yet.
NoEnv == [n \in EnvNames |-> "none"]

\* self._io before __init__ has registered anything.
NoHandlers == [n \in {} |-> "none"]

\* The environment is changed from outside, at any time.
SetEnv(name, v) ==
    /\ os_environ[name] # v
    /\ os_environ' = [os_environ EXCEPT ![name] = v]
    /\ UNCHANGED <<lifecycle, callVars, inVars, outVars, hostVars, orderVars>>

\* The class body of GDNBridge runs once, when the module is imported: the
\* two class attributes are read from the environment as it is then, and the
\* decorators of ping and _wait_for_response are given these values.
ClassBody ==
    /\ lifecycle.phase = "start"
    /\ SHOTGUN_GDN_RESPONSE_TIMEOUT' =
         os_environ_get(os_environ["SHOTGUN_GDN_RESPONSE_TIMEOUT"], DefaultResponseTimeout)
    /\ SHOTGUN_GDN_HEARTBEAT_TIMEOUT' =
         os_environ_get(os_environ["SHOTGUN_GDN_HEARTBEAT_TIMEOUT"], DefaultHeartbeatTimeout)
    /\ lifecycle' = [lifecycle EXCEPT !.phase = "imported", !.atImport = os_environ]
    /\ UNCHANGED <<os_environ, calls, inVars, outVars, hostVars, orderVars>>

\* __init__: the two class attributes are written to the debug log with %s,
\* which accepts any value, and the six transport handlers are registered.
\* The environment is not read.
Construct ==
    /\ lifecycle.phase = "imported"
    /\ io_handlers' = GDNBridge_init
    /\ lifecycle' = [lifecycle EXCEPT !.phase = "constructed", !.atConstruct = os_environ]
    /\ UNCHANGED <<os_environ, callVars, subs, rxLast, outVars, hostVars, orderVars>>

\* The host state the parts other than the host queries start from.
InitHostIdle ==
    /\ app = NoQuery.appAt
    /\ queryLast = NoQuery

Init == InitCalls /\ InitInbound /\ InitOutbound /\ InitHost

NextCalls ==
    \/ \E c \in Callers, fn \in GuardedFns : Call(c, fn)
    \/ \E c \in Callers : TimerFire(c)
    \/ \E c \in Callers : Deliver(c)
    \/ \E c \in Callers : FuncReturn(c)
    \/ \E c \in Callers : FuncRaise(c)
    \/ \E c \in Callers : Finally(c)

Next == NextCalls \/ NextInbound \/ NextOutbound \/ NextHost

Spec == Init /\ [][Next]_vars

\* The guarded calls alone, under every configuration.
InitOfCalls == InitCalls /\ InitInbound /\ InitOutbound /\ InitHostIdle

SpecCalls == InitOfCalls /\ [][NextCalls]_vars

\* The other parts, with neither timeout set in the environment.
InitOfBridge == InitCallsDefault /\ InitInbound /\ InitOutbound /\ InitHostIdle

SpecInbound == InitOfBridge /\ [][NextInbound]_vars

SpecOutbound == InitOfBridge /\ [][NextOutbound]_vars

InitOfHost == InitCallsDefault /\ InitInbound /\ InitOutbound /\ InitHost

SpecHost == InitOfHost /\ [][NextHost]_vars

(***************************************************************************)
(* Scheduling: a timer thread whose interval has passed runs, and a caller *)
(* thread that can leave func or the finally clause does so.  Nothing      *)
(* obliges the remote side to answer, the connection to fail, or a caller  *)
(* to make another call.                                                   *)
(***************************************************************************)
FairCalls ==
    \A c \in Callers :
        /\ WF_vars(TimerFire(c))
        /\ WF_vars(FuncReturn(c))
        /\ WF_vars(Finally(c))

FairSpecCalls == SpecCalls /\ FairCalls

\* Before the module is imported: any environment, no class attributes, no
\* bridge, nothing registered.
InitUnloaded(environ) ==
    /\ os_environ \in [EnvNames -> environ]
    /\ lifecycle = [phase |-> "start", atImport |-> NoEnv, atConstruct |-> NoEnv]
    /\ SHOTGUN_GDN_RESPONSE_TIMEOUT = Undefined
    /\ SHOTGUN_GDN_HEARTBEAT_TIMEOUT = Undefined
    /\ calls = [c \in Callers |-> NoCall]
    /\ io_handlers = NoHandlers
    /\ subs = [sig \in Signals |-> <<>>]
    /\ rxLast = NoMessage
    /\ rxLog = <<>>
    /\ pubLog = <<>>
    /\ dlvLog = <<>>
    /\ InitOutbound
    /\ InitHostIdle

\* The thread that imports the module, constructs the bridge and calls it.
MainCaller == 1

\* The guarded calls of the main thread.
NextMainCalls ==
    \/ \E fn \in GuardedFns : Call(MainCaller, fn)
    \/ TimerFire(MainCaller)
    \/ Deliver(MainCaller)
    \/ FuncReturn(MainCaller)
    \/ FuncRaise(MainCaller)
    \/ Finally(MainCaller)

\* The configuration: the environment changes at any time, the module is
\* imported, a bridge is constructed and the main thread calls it.
InitOfConfig == InitUnloaded(EnvValues)

NextConfig ==
    \/ \E name \in EnvNames, v \in EnvValues : SetEnv(name, v)
    \/ ClassBody
    \/ Construct
    \/ NextMainCalls

SpecConfig == InitOfConfig /\ [][NextConfig]_vars

\* Runs of integer messages on two channels, to consumers of their two
\* signals.
OrderNames == {"command", "gdn_hwnd"}

OrderPayloads == {"42", "7", "{oops"}

OrderSignals == {"command_received", "gdn_hwnd"}

NextOrder ==
    \/ \E sig \in OrderSignals : Connect(sig)
    \/ \E name \in OrderNames, payload \in OrderPayloads : ReceiveNext(name, payload)

SpecOrder == InitOfBridge /\ [][NextOrder]_vars

\* The whole life of one bridge: import, construction, then every kind of
\* operation and inbound message, each with an input that succeeds and one
\* that fails.
BridgeEnvValues == {"unset", "abc"}

BridgePayloads == {"{oops"}

BridgeSenders == {"send_commands"}

BridgeSenderArgs == {PyStr("/tmp/tk.log"), PyObject}

BridgeHostStates == {h \in HostStates : h.activeDocument = "raises"}

InitOfLife == InitUnloaded(BridgeEnvValues)

NextLife ==
    \/ ClassBody
    \/ Construct
    \/ NextMainCalls
    \/ \E name \in MessageNames, payload \in BridgePayloads : Receive(name, payload)
    \/ \E op \in BridgeSenders, arg \in BridgeSenderArgs : Send(op, arg, PyNone)
    \/ Send("send_unknown_context", PyNone, PyNone)
    \/ \E h \in BridgeHostStates : HostChange(h)
    \/ GetActiveDocument
    \/ GetActiveDocumentPath

SpecLife == InitOfLife /\ [][NextLife]_vars

Done(call) == call.pc \in {"returned", "raised"}

TimedOut(call) ==
    /\ call.pc = "raised"
    /\ call.outcome = Raised("RPCTimeoutError", error_message(call.fn))

\* C1: a guarded call whose timer fired before the wrapped function
\* completed never returns normally: when the function completes later,
\* its caller still gets RPCTimeoutError with the configured message, and
\* the late result is not seen.
C1_FiredDeadlineRaisesTimeout ==
    \A c \in Callers :
        (Done(calls[c]) /\ calls[c].firedAt = "in_func"
            /\ calls[c].funcResult.kind = "return")
          => TimedOut(calls[c])

\* C2: a guarded call that is waiting and whose answer never arrives (and
\* whose function does not fail on its own) eventually ends in its caller
\* with RPCTimeoutError and the message of its function; it does not wait
\* forever.
C2_UnansweredCallTimesOut ==
    \A c \in Callers :
        (calls[c].pc = "in_func" /\ calls[c].resp = "pending")
            ~> \/ calls[c].resp = "arrived"
               \/ calls[c].funcResult = Raised("OperationFailure", "")
               \/ TimedOut(calls[c])

\* C3: whenever a caller has no guarded call in flight, the timer of its
\* last call is not active, whether the function returned or raised; and a
\* call whose function completed before its timer fired gives its caller
\* the function's own result or failure.
C3_NoActiveTimerAfterReturn ==
    \A c \in Callers :
        /\ ~InFlight(calls[c]) => calls[c].timer # "active"
        /\ (Done(calls[c]) /\ calls[c].firedAt # "in_func" /\ calls[c].fn # "none"
              /\ calls[c].timer # "none")
             => /\ calls[c].outcome = calls[c].funcResult
                /\ calls[c].funcResult # NoOutcome

\* A call whose function raised its own failure has returned to its caller
\* with the timer cancelled.
C3_Witness ==
    \E c \in Callers :
        /\ calls[c].pc = "raised"
        /\ calls[c].outcome = Raised("OperationFailure", "")
        /\ calls[c].timer = "cancelled"

\* C10: every step changes the call of at most one caller, so the
\* completion, failure or timer cancellation of one call leaves the timer,
\* the position and the outcome of every other call as they were; and a
\* call that returned a value returned the value of its own function and
\* uid.
C10_ConcurrentCallsIndependent ==
    [][\A c \in Callers, d \in Callers :
          /\ (c # d /\ calls'[c] # calls[c]) => calls'[d] = calls[d]
          /\ calls'[c].pc = "returned"
               => calls'[c].outcome = func_result(calls'[c].fn, c)]_vars

\* Two pings are in flight together; one has left with its timer cancelled
\* while the timer of the other is still active.
C10_Witness ==
    \E c \in Callers, d \in Callers :
        /\ c # d
        /\ calls[c].fn = "ping" /\ calls[d].fn = "ping"
        /\ calls[c].pc = "returned" /\ calls[c].timer = "cancelled"
        /\ calls[d].pc = "in_func" /\ calls[d].timer = "active"

\* The well-formed logging payloads and the fields they carry.
LoggingExamples ==
    {[text |-> "{\"level\":\"warning\",\"message\":\"disk full\"}",
      level |-> "warning", message |-> "disk full"],
     [text |-> "{\"level\":\"debug\",\"message\":\"ok\"}",
      level |-> "debug", message |-> "ok"]}

\* What the slots connected to a signal have been called with when one
\* event with these arguments was delivered to each, in connection order.
DeliveredToAll(slots, signal, args) ==
    [i \in 1..Len(slots) |-> [sub |-> slots[i], signal |-> signal, args |-> args]]

\* C4: a well-formed logging message with level L and message M makes one
\* logging_received event carrying (L, M), delivered once to every slot
\* connected at that moment, in connection order, all within the handling
\* of that message, before the transport takes the next one.
C4_LoggingDeliveredInOrder ==
    [][\A ex \in LoggingExamples :
          (rxLast' # rxLast /\ rxLast'.name = "logging" /\ rxLast'.payload = ex.text)
            => /\ rxLast'.exc = ""
               /\ rxLast'.emitted =
                    <<[signal |-> "logging_received",
                       args |-> <<PyStr(ex.level), PyStr(ex.message)>>]>>
               /\ rxLast'.delivered =
                    DeliveredToAll(subs["logging_received"], "logging_received",
                                   <<PyStr(ex.level), PyStr(ex.message)>>)]_vars

\* A logging message has reached two slots, the first connected first.
C4_Witness ==
    /\ rxLast.name = "logging"
    /\ rxLast.payload = "{\"level\":\"warning\",\"message\":\"disk full\"}"
    /\ Len(rxLast.delivered) = 2
    /\ rxLast.delivered[1].sub = subs["logging_received"][1]
    /\ rxLast.delivered[2].sub = subs["logging_received"][2]
    /\ rxLast.delivered[1].sub # rxLast.delivered[2].sub

\* The command payloads that decode to an integer, and those that are
\* malformed: not decodable, or decoding to nothing numeric.
IntegerPayloads == {[text |-> "42", n |-> 42], [text |-> "7", n |-> 7]}

MalformedCommandPayloads ==
    {"{oops", "", "\"abc\"", "null", "{}",
     "{\"level\":\"warning\",\"message\":\"disk full\"}",
     "{\"active_document_path\":\"/p/a.psd\"}"}

DecodingMessageNames == {"logging", "command", "active_document_changed", "gdn_hwnd"}

\* C6: no inbound message, however malformed its payload, makes a failure
\* leave a decoding handler and reach the transport's receive path.
C6_MalformedPayloadSwallowed ==
    rxLast.name \in DecodingMessageNames => rxLast.exc = ""

\* One well-formed message per registered name, with the signal that
\* carries its event kind and the decoded fields.
RoutingExamples ==
    {[name |-> "logging", text |-> "{\"level\":\"warning\",\"message\":\"disk full\"}",
      signal |-> "logging_received", args |-> <<PyStr("warning"), PyStr("disk full")>>],
     [name |-> "command", text |-> "42",
      signal |-> "command_received", args |-> <<PyInt(42)>>],
     [name |-> "run_tests", text |-> "null",
      signal |-> "run_tests_request_received", args |-> <<>>],
     [name |-> "state_requested", text |-> "null",
      signal |-> "state_requested", args |-> <<>>],
     [name |-> "active_document_changed",
      text |-> "{\"active_document_path\":\"/p/a.psd\"}",
      signal |-> "active_document_changed", args |-> <<PyStr("/p/a.psd")>>],
     [name |-> "active_document_changed", text |-> "{}",
      signal |-> "active_document_changed", args |-> <<PyNone>>],
     [name |-> "gdn_hwnd", text |-> "42",
      signal |-> "gdn_hwnd", args |-> <<PyInt(42)>>]}

C8_HostFailureGivesNone ==
    /\ queryLast.op = "get_active_document_path"
         => /\ (\/ queryLast.appAt.activeDocument \in {"raises", "None"}
                \/ queryLast.appAt.fsName = "raises")
                  => queryLast.result = Returned(PyNone)
            /\ \A p \in {"/p/a.psd", "/p/b.psd"} :
                 (/\ queryLast.appAt.activeDocument = "doc"
                  /\ queryLast.appAt.fsName = "value"
                  /\ queryLast.appAt.path \in {PyStr(p), PyBytes(p)})
                   => queryLast.result = Returned(PyStr(p))
            /\ queryLast.result.exc # "RuntimeError"
    /\ queryLast.op = "get_active_document"
         => /\ queryLast.appAt.activeDocument = "raises"
                 => queryLast.result = Returned(PyNone)
            /\ queryLast.result.kind = "return"

\* The path was asked for while the accessor raised, and None came back.
C8_Witness ==
    /\ queryLast.op = "get_active_document_path"
    /\ queryLast.appAt.activeDocument = "raises"
    /\ queryLast.result = Returned(PyNone)

\* The exact message name of each sender.
ExactName(op) ==
    CASE op = "log_message" -> "log_message"
      [] op = "send_commands" -> "set_commands"
      [] op = "send_context_display" -> "set_context_display"
      [] op = "send_context_thumbnail" -> "set_context_thumbnail"
      [] op = "send_log_file_path" -> "set_log_file_path"
      [] op = "send_unknown_context" -> "set_unknown_context"
      [] op = "context_about_to_change" -> "context_about_to_change"

\* The arguments json.dumps can encode.
Encodable(x) == x.t # "object" /\ \A i \in x.items : i.v.t # "object"

\* C9: a sender given encodable arguments gives the transport exactly one
\* message, under its exact name, and returns; it starts no timer and
\* waits for nothing (no guarded call changes); it fails only when an
\* argument cannot be encoded, with the encoder's error.
C9_SendersEmitOneNamedMessage ==
    [][(sendLast' # sendLast \/ outbox' # outbox)
         => /\ calls' = calls
            /\ (Encodable(sendLast'.a) /\ Encodable(sendLast'.b))
                 => /\ sendLast'.exc = ""
                    /\ Len(outbox') = Len(outbox) + 1
                    /\ SubSeq(outbox', 1, Len(outbox)) = outbox
                    /\ outbox'[Len(outbox')].name = ExactName(sendLast'.op)
            /\ sendLast'.exc # ""
                 => /\ sendLast'.exc = "TypeError"
                    /\ ~(Encodable(sendLast'.a) /\ Encodable(sendLast'.b))
            /\ (sendLast'.op = "send_log_file_path" /\ sendLast'.a = PyStr("/tmp/tk.log"))
                 => outbox'[Len(outbox')].args = <<"\"/tmp/tk.log\"">>
            /\ sendLast'.op \in NoArgSenders
                 => outbox'[Len(outbox')].args = <<>>]_vars

\* send_commands has just given set_commands to the transport, after
\* another message.
C9_Witness ==
    /\ sendLast.op = "send_commands"
    /\ sendLast.exc = ""
    /\ Len(outbox) = 2
    /\ outbox[2].name = "set_commands"

(***************************************************************************)
(* The late response.                                                      *)
(***************************************************************************)

\* C11: once the deadline of a _wait_for_response call has passed while the
\* call waits, the call is over for its response: a response that comes
\* afterwards reaches no waiter, so the call's reply never becomes "arrived"
\* after its timer has fired.
C11_LateResponseDiscarded ==
    [][\A c \in Callers :
         (/\ calls[c].fn = "_wait_for_response"
          /\ calls[c].firedAt = "in_func"
          /\ calls[c].resp = "pending")
         => calls'[c].resp = "pending"]_vars

(***************************************************************************)
(* The configured timeouts.                                                *)
(***************************************************************************)

\* The environment variable behind each guarded call, and its default.
EnvNameOf(fn) ==
    IF fn = "ping" THEN "SHOTGUN_GDN_HEARTBEAT_TIMEOUT"
    ELSE "SHOTGUN_GDN_RESPONSE_TIMEOUT"

DefaultOf(fn) ==
    IF fn = "ping" THEN DefaultHeartbeatTimeout ELSE DefaultResponseTimeout

\* The duration, in tenths of a second, that an environment value stands
\* for: the default when unset, 2 s for "2", none for a text that is no number.
ExpectedTenths(v, default) ==
    IF v = "unset" THEN default ELSE IF v = "2" THEN 20 ELSE -1

HasTimer(call) == call.fn \in GuardedFns /\ call.timer # "none"

\* C12 as stated: the duration of every call's timer is the one the
\* environment held at the moment the bridge was constructed.
C12_TimeoutsAreThoseAtConstruction ==
    \A c \in Callers :
        HasTimer(calls[c]) =>
            calls[c].interval =
                ExpectedTenths(lifecycle.atConstruct[EnvNameOf(calls[c].fn)],
                               DefaultOf(calls[c].fn))

\* C12, amended: the two durations are the values the environment held when
\* the module was imported (the class body ran), 0.5 s and 300 s when unset;
\* they are read that once, every later call uses them, and no later change
\* of the environment, before or after construction, changes them.
C12_TimeoutsAreThoseAtImport ==
    /\ \A c \in Callers :
        HasTimer(calls[c]) =>
            calls[c].interval =
                ExpectedTenths(lifecycle.atImport[EnvNameOf(calls[c].fn)],
                               DefaultOf(calls[c].fn))
    /\ lifecycle.phase # "start" =>
        \A fn \in GuardedFns :
            IF lifecycle.atImport[EnvNameOf(fn)] = "unset"
            THEN seconds(fn).t = "float" /\ seconds(fn).tenths = DefaultOf(fn)
            ELSE seconds(fn).t = "str" /\ seconds(fn).s = lifecycle.atImport[EnvNameOf(fn)]

\* A ping whose timer runs for the 2 s set at import, although the variable
\* was unset again before the bridge was constructed.
C12_Witness ==
    /\ Constructed
    /\ lifecycle.atImport["SHOTGUN_GDN_HEARTBEAT_TIMEOUT"] = "2"
    /\ lifecycle.atConstruct["SHOTGUN_GDN_HEARTBEAT_TIMEOUT"] = "unset"
    /\ calls[MainCaller].fn = "ping"
    /\ calls[MainCaller].timer = "active"
    /\ calls[MainCaller].interval = 20

\* A configured value that is no number.
Invalid(x) == x.t = "str" /\ x.s = "abc"

\* C13: a bridge is never constructed with a timeout value that is no number
\* (construction fails at once instead), and so no ping or _wait_for_response
\* call is the first to find the value invalid.
C13_InvalidTimeoutFailsConstruction ==
    /\ Constructed => \A fn \in GuardedFns : ~Invalid(seconds(fn))
    /\ \A c \in Callers : calls[c].outcome.exc # "ValueError"

(***************************************************************************)
(* The order of the events of one kind.                                    *)
(***************************************************************************)

\* The kind of event each message name stands for.
EventKindOf(name) ==
    CASE name = "logging" -> "logging_received"
      [] name = "command" -> "command_received"
      [] name = "run_tests" -> "run_tests_request_received"
      [] name = "state_requested" -> "state_requested"
      [] name = "active_document_changed" -> "active_document_changed"
      [] name = "gdn_hwnd" -> "gdn_hwnd"

\* Every entry of the log comes from a message of its kind's channel.
FromItsChannel(log) ==
    \A i \in 1..Len(log) :
        /\ log[i].place \in 1..Len(rxLog)
        /\ EventKindOf(rxLog[log[i].place].name) = log[i].signal

\* C14: the events of one kind are published in the order in which their
\* messages were delivered, and every subscriber receives the events of one
\* kind in that order: no event comes before an earlier message's event of
\* its kind, and none comes twice.
C14_EventsOfAKindInDeliveryOrder ==
    /\ FromItsChannel(pubLog)
    /\ FromItsChannel(dlvLog)
    /\ \A i, j \in 1..Len(pubLog) :
        (i < j /\ pubLog[i].signal = pubLog[j].signal)
            => pubLog[i].place < pubLog[j].place
    /\ \A i, j \in 1..Len(dlvLog) :
        (i < j /\ dlvLog[i].signal = dlvLog[j].signal /\ dlvLog[i].sub = dlvLog[j].sub)
            => dlvLog[i].place < dlvLog[j].place
    /\ \A i \in 1..Len(dlvLog) :
        \E k \in 1..Len(pubLog) :
            /\ pubLog[k].place = dlvLog[i].place
            /\ pubLog[k].signal = dlvLog[i].signal
            /\ pubLog[k].args = dlvLog[i].args

\* Two consumers of command_received have each received 42, then 7, with a
\* malformed command between the two.
C14_Witness ==
    /\ Len(rxLog) = 3
    /\ rxLog[2].payload = "{oops"
    /\ Len(pubLog) = 2
    /\ Len(dlvLog) = 4
    /\ \A s \in 1..2 :
        \E i, j \in 1..4 :
            /\ i < j
            /\ dlvLog[i].sub = s /\ dlvLog[i].args = <<PyInt(42)>> /\ dlvLog[i].place = 1
            /\ dlvLog[j].sub = s /\ dlvLog[j].args = <<PyInt(7)>> /\ dlvLog[j].place = 3
            /\ dlvLog[i].signal = "command_received"
            /\ dlvLog[j].signal = "command_received"

(***************************************************************************)
(* A sender whose argument cannot be encoded.                              *)
(***************************************************************************)

EncodingSenders ==
    {"log_message", "send_commands", "send_context_display",
     "send_context_thumbnail", "send_log_file_path"}

\* C15: a call of an encoding sender that ends with an encode error has
\* given nothing to the transport and has changed nothing of the bridge:
\* the encoding comes before the emit, so the failure leaves before it.
C15_EncodeFailureEmitsNothing ==
    [][(sendLast'.op \in EncodingSenders /\ sendLast'.exc # "")
         => /\ outbox' = outbox
            /\ UNCHANGED <<callVars, inVars, hostVars, cfgVars, orderVars>>]_vars

\* After one message went out, send_context_display was called with an
\* object json cannot encode: TypeError, and the one message is all there is.
C15_Witness ==
    /\ sendLast.op = "send_context_display"
    /\ sendLast.a = PyObject
    /\ sendLast.exc = "TypeError"
    /\ Len(outbox) = 1
    /\ outbox[1].name # "set_context_display"

(***************************************************************************)
(* The two handlers that disregard their payload.                          *)
(***************************************************************************)

PayloadFreeNames == {"run_tests", "state_requested"}

\* C16: whatever the payload of a run_tests or state_requested message is,
\* empty or malformed included, its handler raises nothing and publishes
\* exactly one event, of the message's kind and without arguments.
C16_PayloadDisregarded ==
    rxLast.name \in PayloadFreeNames =>
        /\ rxLast.exc = ""
        /\ rxLast.emitted =
            <<[signal |-> IF rxLast.name = "run_tests"
                          THEN "run_tests_request_received"
                          ELSE "state_requested",
               args |-> <<>>]>>

\* A run_tests message with a payload that is no JSON has been handled, and
\* its one event has reached a connected consumer.
C16_Witness ==
    /\ rxLast.name = "run_tests"
    /\ rxLast.payload = "{oops"
    /\ Len(rxLast.emitted) = 1
    /\ Len(rxLast.delivered) = 1
    /\ rxLast.delivered[1].signal = "run_tests_request_received"

(***************************************************************************)
(* The registered handlers.                                                *)
(***************************************************************************)

\* The six channels and the handler of each.
SixHandlers ==
    [n \in {"logging", "command", "run_tests", "state_requested",
            "active_document_changed", "gdn_hwnd"} |->
        CASE n = "logging" -> "_forward_logging"
          [] n = "command" -> "_forward_command"
          [] n = "run_tests" -> "_forward_run_tests"
          [] n = "state_requested" -> "_forward_state_request"
          [] n = "active_document_changed" -> "_forward_active_document_changed"
          [] n = "gdn_hwnd" -> "_forward_gdn_hwnd"]

\* C17: construction registers exactly the six handlers, one per message
\* name, and from then on no step of the bridge changes the registered
\* pairs: no guarded call, whether it returns, times out or fails, no sender,
\* no host query and no inbound message.
C17_SixHandlersRegisteredAndKept ==
    [][/\ Constructed' => io_handlers' = SixHandlers
       /\ Constructed => io_handlers' = io_handlers]_vars

\* A constructed bridge with its six handlers after a call whose timer has
\* fired, an inbound message whose handler raised, a sender that failed to
\* encode and a host query that met a failing host.
C17_Witness ==
    /\ Constructed
    /\ DOMAIN io_handlers = DOMAIN SixHandlers
    /\ Cardinality(DOMAIN io_handlers) = 6
    /\ calls[MainCaller].pc = "returned"
    /\ calls[MainCaller].timer = "fired"
    /\ rxLast.exc = "ValueError"
    /\ sendLast.exc = "TypeError"
    /\ queryLast.op = "get_active_document"
    /\ queryLast.appAt.activeDocument = "raises"

=============================================================================
